---- MODULE Spec2Model ----
(***************************************************************************)
(* A model of zeroe/attacks/simple_attacks.py: the perturbation engine     *)
(* simple_perturb, its word transforms (swap, intruders, disemvoweling,    *)
(* truncating, key, natural) and the token segmenter (segmentation).       *)
(*                                                                         *)
(* A word is a sequence of one-character strings.  A text is represented   *)
(* by the token sequence nltk.word_tokenize produces from it; the          *)
(* tokenizer and the detokenizer are external libraries.                   *)
(* A perturbation level is the rational lvl / LevelDen.                    *)
(***************************************************************************)
EXTENDS Integers, Sequences, FiniteSets, TLC

VARIABLES
    pc,               \* position of the simple_perturb call
    text,             \* argument text, as its token sequence
    method,           \* argument / local method: [type, v]
    lvl,              \* argument perturbation_level = lvl / LevelDen
    words,            \* local words (list of tokens)
    word_indexes,     \* local word_indexes (list of 0-based positions)
    perturbed_words,  \* local perturbed_words
    index,            \* local index
    word,             \* local word
    result,           \* segmentation: local result
    buffer,           \* segmentation: local buffer
    seg_pos,          \* segmentation: position of the for loop (1-based)
    out,              \* the token sequence handed to the detokenizer
    raised,           \* message of the ValueError raised, "" if none
    NN,               \* module global NN (keyboard neighbours)
    typos,            \* module global typos (natural typos)
    tokenized,        \* history: nltk.word_tokenize was called in this call
    attempts,         \* history: indexes drawn in this call, in order
    applied,          \* history: number of transform invocations in this call
    sw_pc,            \* position of a direct swap call
    sw_word,          \* swap: argument word
    sw_inner,         \* swap: argument inner
    sw_perturbed,     \* swap: local perturbed
    sw_tries,         \* swap: local tries
    sw_ret,           \* swap: return value
    fn_pc,            \* position of a direct call of a deterministic transform
    fn_name,          \* which transform was called
    fn_word,          \* its argument word
    fn_minlen,        \* truncating: argument minlen
    fn_cutoff,        \* truncating: argument cutoff
    fn_ret,           \* its return value
    in_pc,            \* position of an intruders call
    in_caller,        \* who called intruders: "direct" or "simple_perturb"
    in_word,          \* intruders: argument word
    in_lvl,           \* intruders: argument perturbation_level, times LevelDen
    in_chars,         \* intruders: local chars
    in_punct,         \* intruders: local punct
    in_perturbed,     \* intruders: local perturbed
    in_i,             \* intruders: local i
    in_ret,           \* intruders: return value
    ky_pc,            \* position of a direct call of key or natural
    ky_name,          \* which of the two was called
    ky_word,          \* its argument word
    ky_prob,          \* its argument probability / precentage, times LevelDen
    ky_gate,          \* the gate random.random() > probability let the call pass
    ky_i,             \* key: local i (1-based), 0 if none was picked
    ky_ret,           \* its return value
    ky_err,           \* the exception it raised, "" if none
    calls,            \* concurrent simple_perturb calls: caller -> its locals
    rng               \* state of the global generators random and np.random

main_vars == <<pc, text, method, lvl, words, word_indexes, perturbed_words,
               index, word, result, buffer, seg_pos, out, raised,
               tokenized, attempts, applied>>
table_vars == <<NN, typos>>
swap_vars == <<sw_pc, sw_word, sw_inner, sw_perturbed, sw_tries, sw_ret>>
fn_vars == <<fn_pc, fn_name, fn_word, fn_minlen, fn_cutoff, fn_ret>>
in_vars == <<in_pc, in_caller, in_word, in_lvl, in_chars, in_punct, in_perturbed,
             in_i, in_ret>>
conc_vars == <<calls, rng>>
ky_vars == <<ky_pc, ky_name, ky_word, ky_prob, ky_gate, ky_i, ky_ret, ky_err>>
vars == <<main_vars, table_vars, swap_vars, fn_vars, in_vars, ky_vars, conc_vars>>

---------------------------------------------------------------------------
(* Bounds of the model *)

MaxTokens == 2     \* longest token sequence of a text
LevelDen == 4      \* levels are the multiples of 1/LevelDen
MaxWordLen == 4    \* longest word handed directly to a transform

---------------------------------------------------------------------------
(* Characters *)

\* (lower, upper) pairs of the cased characters of the model's alphabet
CasePairs == { <<"a", "A">>, <<"e", "E">>, <<"i", "I">>, <<"b", "B">>,
               <<"c", "C">>, <<"k", "K">>, <<"l", "L">>, <<"t", "T">>,
               <<"s", "S">>, <<"q", "Q">>, <<"n", "N">>, <<"o", "O">>,
               <<"x", "X">>, <<"v", "V">>, <<"r", "R">>, <<"y", "Y">> }

\* str.upper() / str.lower() / str.isupper() of one character
Upper(c) == IF \E p \in CasePairs : p[1] = c
            THEN (CHOOSE p \in CasePairs : p[1] = c)[2] ELSE c
Lower(c) == IF \E p \in CasePairs : p[2] = c
            THEN (CHOOSE p \in CasePairs : p[2] = c)[1] ELSE c
IsUpper(c) == \E p \in CasePairs : p[2] = c

\* string.punctuation restricted to the model's alphabet, in its order
\* (the full constant is !"#$%&'()*+,-./:;<=>?@[\]^_`{|}~ )
punctuation == << "-", "." >>

\* Python's  a in b  on strings: a is a contiguous substring of b
IsSubstring(a, b) ==
    \E s \in 0..(Len(b) - Len(a)) :
        \A i \in 1..Len(a) : b[s + i] = a[i]

---------------------------------------------------------------------------
(* Word transforms.  A randomised transform is the set of the values it   *)
(* can return; a transform that can raise returns outcomes [err, val].     *)

Ok(w) == [err |-> "", val |-> w]
Raise(e) == [err |-> e, val |-> << >>]

\* swap.__shuffle_string__ with seed None: np.random.shuffle can leave the
\* characters in any order
shuffle_string(_word) ==
    { [i \in 1..Len(_word) |-> _word[p[i]]] : p \in Permutations(1..Len(_word)) }

\* swap, line 133: the words swap returns at once
SwapTooShort(w, inner) == Len(w) < 3 \/ (inner /\ Len(w) < 4)

\* a faulty SwapAttempt: inner is ignored, the whole word is shuffled
SwapAttemptWhole(w, inner) == shuffle_string(w)

\* swap, lines 141-145: the values one pass of the loop body can give perturbed
SwapAttempt(w, inner) ==
    IF inner
    THEN { <<w[1]>> \o m \o <<w[Len(w)]>> :
             m \in shuffle_string(SubSeq(w, 2, Len(w) - 1)) }
    ELSE shuffle_string(w)

\* swap, line 139: the retry cap
MaxTries == 10

\* swap(word, inner): every value a call can return.  The loop returns the
\* first attempt that differs from word, or word after MaxTries equal ones.
swap(w, inner) ==
    IF SwapTooShort(w, inner) THEN {w}
    ELSE { p \in SwapAttempt(w, inner) : p # w } \cup {w}

\* w with the character p inserted in the gaps G (gap g lies after w[g])
RECURSIVE Intrude(_, _, _, _)
Intrude(w, G, p, g) ==
    IF g > Len(w) THEN << >>
    ELSE <<w[g]>> \o (IF g \in G THEN <<p>> ELSE << >>) \o Intrude(w, G, p, g + 1)

\* np.random.uniform(0, 1) < perturbation_level can be true / can be false
CanBeBelow(l) == l > 0

\* a faulty CanBeNotBelow: the draw can reach 1
CanBeNotBelowAtOne(l) == l <= LevelDen

CanBeNotBelow(l) == l < LevelDen

\* intruders(word, perturbation_level): every value a call can return.
\* One scan (lines 165-172) visits each gap between two original characters
\* and inserts punct there when the draw is below the level; the scan is
\* repeated until something was inserted.
intruders(w, l) ==
    IF IsSubstring(w, punctuation) \/ Len(w) < 2 THEN {w}
    ELSE IF Len(w) = 2
    THEN { <<w[1], punctuation[k], w[2]>> : k \in 1..Len(punctuation) }
    ELSE { Intrude(w, G, punctuation[k], 1) :
             k \in 1..Len(punctuation),
             G \in { H \in SUBSET (1..(Len(w) - 1)) :
                       /\ H # {}
                       /\ (H # 1..(Len(w) - 1) => CanBeNotBelow(l))
                       /\ CanBeBelow(l) } }

\* disemvoweling, default argument vocals = "AEIOU"
vocals == { "A", "E", "I", "O", "U" }

\* a faulty CountVowels: the character is not upper-cased before the test
RECURSIVE CountVowelsCaseSensitive(_)
CountVowelsCaseSensitive(w) ==
    IF w = << >> THEN 0
    ELSE (IF Head(w) \in vocals THEN 1 ELSE 0) + CountVowelsCaseSensitive(Tail(w))

\* disemvoweling, lines 185-188: count_vowels after the for loop
RECURSIVE CountVowels(_)
CountVowels(w) ==
    IF w = << >> THEN 0
    ELSE (IF Upper(Head(w)) \in vocals THEN 1 ELSE 0) + CountVowels(Tail(w))

\* re.sub('[AEIOU]', '', word, flags=re.IGNORECASE)
ReMatchesVocal(c) == \E v \in vocals : Lower(c) = Lower(v)
ReSubVocals(w) == SelectSeq(w, LAMBDA c : ~ReMatchesVocal(c))

disemvoweling(w) ==
    IF Len(w) < 3 THEN w
    ELSE IF CountVowels(w) = Len(w) THEN w
    ELSE ReSubVocals(w)

\* truncating, default arguments
DefaultMinlen == 3
DefaultCutoff == 1

\* a faulty TruncLoop: the length test is >= instead of >
RECURSIVE TruncLoopBelowMin(_, _, _)
TruncLoopBelowMin(chars, minlen, tmp_cutoff) ==
    IF Len(chars) >= minlen /\ Len(chars) > 0 /\ tmp_cutoff > 0
    THEN TruncLoopBelowMin(SubSeq(chars, 1, Len(chars) - 1), minlen, tmp_cutoff - 1)
    ELSE chars

\* truncating, lines 206-208: the while loop
RECURSIVE TruncLoop(_, _, _)
TruncLoop(chars, minlen, tmp_cutoff) ==
    IF Len(chars) > minlen /\ tmp_cutoff > 0
    THEN TruncLoop(SubSeq(chars, 1, Len(chars) - 1), minlen, tmp_cutoff - 1)
    ELSE chars

truncating(w, minlen, cutoff) == TruncLoop(w, minlen, cutoff)

\* key(word, probability) with probability = 1.0 (the default, the only
\* value simple_perturb uses): random.random() is in
\* [0, 1), so the gate random.random() > probability never holds.
\* random.randint(0, -1) raises ValueError; NN[k] of a missing k, KeyError.
\* lines 241-247: the outcomes of key once position i (1-based) is picked;
\* the result of word[i].upper() on line 246 is discarded
KeyAt(w, table, i) ==
    LET char == w[i] IN
    IF char \in DOMAIN table
    THEN IF Lower(char) \notin DOMAIN table THEN { Raise("KeyError") }
         ELSE IF Len(table[Lower(char)]) = 0 THEN { Raise("ValueError") }
         ELSE { Ok([w EXCEPT ![i] = table[Lower(char)][k]]) :
                  k \in 1..Len(table[Lower(char)]) }
    ELSE { Ok(w) }

key(w, table) ==
    IF Len(w) = 0 THEN { Raise("ValueError") }
    ELSE UNION { KeyAt(w, table, i) : i \in 1..Len(w) }

\* natural(word, precentage) with precentage = 1.0
natural(w, table) ==
    IF w \in DOMAIN table
    THEN IF Len(table[w]) = 0 THEN { Raise("ValueError") }
         ELSE { Ok(table[w][k]) : k \in 1..Len(table[w]) }
    ELSE { Ok(w) }

---------------------------------------------------------------------------
(* Lookup tables *)

\* lines 213-223: the dict built from the lines of a file, each line split
\* into its tokens; a later line with the same first token replaces an
\* earlier one
RECURSIVE LoadTable(_)
LoadTable(lines) ==
    IF lines = << >> THEN << >>
    ELSE LET t == LoadTable(SubSeq(lines, 1, Len(lines) - 1))
             line == lines[Len(lines)]
         IN [k \in DOMAIN t \cup {line[1]} |->
                IF k = line[1] THEN Tail(line) ELSE t[k]]

\* a stand-in for _data/attacks/en.key: lower-case keys and their neighbours
en_key == << <<"a", "s", "q">>, <<"c", "x", "v">>, <<"i", "o">>,
             <<"l", "k">>, <<"t", "r", "y">> >>

\* a stand-in for _data/attacks/en.natural: words and their attested typos
en_natural == << << <<"c","a","t">>, <<"c","t","a">>, <<"k","a","t">> >>,
                 << <<"l","i","k","e">>, <<"l","i","e","k">> >> >>

\* a keyboard file with an upper-case key that has no lower-case line, and
\* with a line that holds a key and no neighbour
en_key_sparse == << <<"a", "s">>, <<"B", "n">>, <<"e">> >>

\* a natural-typo file with a line that holds a word and no typo
en_natural_sparse == << << <<"c","a","t">>, <<"c","t","a">> >>,
                        << <<"a","b">> >> >>

\* files the tables can be loaded from: every line has at least one token
KeyFiles == { en_key, en_key_sparse }
NaturalFiles == { en_natural, en_natural_sparse }

---------------------------------------------------------------------------
(* simple_perturb *)

\* class SimpleAttack: the members of the enumeration
SimpleAttack == { "SWAP_FULL", "SWAP_INNER", "INTRUDE", "DISEMVOWEL",
                  "TRUNCATE", "TYPO_KEYBOARD", "TYPO_NATURAL", "SEGMENT" }

UnknownAttack == "Unknown attack method:"
InvalidLevel == "Invalid value for perturbation level."

\* a faulty fromString: an unrecognised string falls through to SEGMENT
fromStringFallsThrough(as_string) ==
    IF as_string = "full-swap" THEN "SWAP_FULL"
    ELSE IF as_string = "inner-swap" THEN "SWAP_INNER"
    ELSE IF as_string = "intrude" THEN "INTRUDE"
    ELSE IF as_string = "disemvowel" THEN "DISEMVOWEL"
    ELSE IF as_string = "truncate" THEN "TRUNCATE"
    ELSE IF as_string = "keyboard-typo" THEN "TYPO_KEYBOARD"
    ELSE IF as_string = "natural-typo" THEN "TYPO_NATURAL"
    ELSE "SEGMENT"

\* SimpleAttack.fromString: the member returned, or "" when it raises
fromString(as_string) ==
    IF as_string = "full-swap" THEN "SWAP_FULL"
    ELSE IF as_string = "inner-swap" THEN "SWAP_INNER"
    ELSE IF as_string = "intrude" THEN "INTRUDE"
    ELSE IF as_string = "disemvowel" THEN "DISEMVOWEL"
    ELSE IF as_string = "truncate" THEN "TRUNCATE"
    ELSE IF as_string = "keyboard-typo" THEN "TYPO_KEYBOARD"
    ELSE IF as_string = "natural-typo" THEN "TYPO_NATURAL"
    ELSE IF as_string = "segment" THEN "SEGMENT"
    ELSE ""

\* the canonical identifiers and some strings that are none of them
CanonicalNames == { "full-swap", "inner-swap", "intrude", "disemvowel",
                    "truncate", "keyboard-typo", "natural-typo", "segment" }
OtherNames == { "reverse", "Full-Swap", "" }

\* the values a caller passes as method: a str or a SimpleAttack member
Methods == [type : {"str"}, v : CanonicalNames \cup OtherNames]
           \cup [type : {"SimpleAttack"}, v : SimpleAttack]

\* the values a caller passes as perturbation_level, times LevelDen
Levels == (-1)..(LevelDen + 1)

\* tokens the tokenizer can produce
Vocab == { <<"I">>, <<"a", "b">>, <<"c", "a", "t">>, <<"l", "i", "k", "e">>,
           <<".">> }

\* token sequences of the texts a caller passes
RECURSIVE SeqsUpTo(_, _)
SeqsUpTo(S, n) ==
    IF n = 0 THEN { << >> }
    ELSE LET shorter == SeqsUpTo(S, n - 1)
         IN shorter \cup { Append(s, x) : s \in { t \in shorter : Len(t) = n - 1 }, x \in S }
Texts == SeqsUpTo(Vocab, MaxTokens)

\* nltk.word_tokenize(text): a text is represented by its token sequence
word_tokenize(t) == t

\* a faulty LevelInRange: the level 1 is refused
LevelInRangeStrict(l) == 0 <= l /\ l < LevelDen

\* line 60: 0 <= perturbation_level <= 1
LevelInRange(l) == 0 <= l /\ l <= LevelDen

\* a faulty BelowTarget: the loop test is <= instead of <
BelowOrAtTarget(count, n, l) == count * LevelDen <= n * l

\* a faulty BelowTarget: the loop stops at half the budget
BelowHalfTarget(count, n, l) == 2 * count * LevelDen < n * l

\* a faulty BelowTarget: the target is one too high
BelowTargetPlusOne(count, n, l) == count * LevelDen < n * l + LevelDen

\* line 71: perturbed_words < perturb_target, with
\* perturb_target = len(words) * perturbation_level  (line 70)
BelowTarget(count, n, l) == count * LevelDen < n * l

\* a faulty ListRemove: the drawn index stays in the pool
ListRemoveNothing(list, x) == list

\* list.remove(x): the list without the first occurrence of x
RECURSIVE ListRemove(_, _)
ListRemove(list, x) ==
    IF list = << >> THEN << >>
    ELSE IF Head(list) = x THEN Tail(list)
    ELSE <<Head(list)>> \o ListRemove(Tail(list), x)

\* a faulty Increment: every attempt is counted
IncrementAlways(perturbed_word, w) == 1

\* line 97: 1 if perturbed_word != word else 0
Increment(perturbed_word, w) == IF perturbed_word # w THEN 1 ELSE 0

\* a faulty PoolExhausted: the emergency exit is taken one index too early
PoolExhaustedEarly(list) == Len(list) <= 1

\* line 73: the emergency exit, len(word_indexes) < 1
PoolExhausted(list) == Len(list) < 1

\* lines 80-95: the outcomes of the transform simple_perturb dispatches to
Transform(m, w, l, nn, ty) ==
    IF m = "SWAP_FULL" THEN { Ok(p) : p \in swap(w, FALSE) }
    ELSE IF m = "SWAP_INNER" THEN { Ok(p) : p \in swap(w, TRUE) }
    ELSE IF m = "INTRUDE" THEN { Ok(p) : p \in intruders(w, l) }
    ELSE IF m = "DISEMVOWEL" THEN { Ok(disemvoweling(w)) }
    ELSE IF m = "TRUNCATE" THEN { Ok(truncating(w, DefaultMinlen, DefaultCutoff)) }
    ELSE IF m = "TYPO_KEYBOARD" THEN key(w, nn)
    ELSE IF m = "TYPO_NATURAL" THEN natural(w, ty)
    ELSE { Raise("Unknown operation") }

NoCall ==
    /\ text = << >> /\ method = [type |-> "str", v |-> ""] /\ lvl = 0
    /\ words = << >> /\ word_indexes = << >> /\ perturbed_words = 0
    /\ index = 0 /\ word = << >>
    /\ result = << >> /\ buffer = << >> /\ seg_pos = 0
    /\ out = << >> /\ raised = ""
    /\ tokenized = FALSE /\ attempts = << >> /\ applied = 0

NoSwap ==
    /\ sw_pc = "idle" /\ sw_word = << >> /\ sw_inner = FALSE
    /\ sw_perturbed = << >> /\ sw_tries = 0 /\ sw_ret = << >>

NoFn ==
    /\ fn_pc = "idle" /\ fn_name = "" /\ fn_word = << >>
    /\ fn_minlen = 0 /\ fn_cutoff = 0 /\ fn_ret = << >>

NoIntruders ==
    /\ in_pc = "idle" /\ in_caller = "" /\ in_word = << >> /\ in_lvl = 0
    /\ in_chars = << >> /\ in_punct = "" /\ in_perturbed = << >>
    /\ in_i = 0 /\ in_ret = << >>

NoTypo ==
    /\ ky_pc = "idle" /\ ky_name = "" /\ ky_word = << >> /\ ky_prob = 0
    /\ ky_gate = FALSE /\ ky_i = 0 /\ ky_ret = << >> /\ ky_err = ""

\* the callers that run simple_perturb concurrently
Callers == { 1, 2 }

\* the locals of a call that has not begun
NoFrame ==
    [pc |-> "idle", text |-> << >>, method |-> "", lvl |-> 0, words |-> << >>,
     word_indexes |-> << >>, perturbed_words |-> 0, index |-> 0, word |-> << >>,
     out |-> << >>]

\* the generators of the modules random and numpy.random
Generators == { "random", "np.random" }

NoConcurrent ==
    /\ calls = [p \in Callers |-> NoFrame]
    /\ rng = [g \in Generators |-> 0]

\* lines 213-223, run at import
TablesLoaded == NN = LoadTable(en_key) /\ typos = LoadTable(en_natural)

Init == pc = "idle" /\ NoCall /\ NoSwap /\ NoFn /\ NoIntruders /\ NoTypo /\ NoConcurrent /\ TablesLoaded

\* a caller invokes simple_perturb(text, method, perturbation_level)
CallWith(texts, methods) ==
    /\ pc = "idle"
    /\ in_pc = "idle"
    /\ ky_pc = "idle"
    /\ \E t \in texts, m \in methods, l \in Levels :
          /\ text' = t /\ method' = m /\ lvl' = l
    /\ pc' = "method"
    /\ words' = << >> /\ word_indexes' = << >> /\ perturbed_words' = 0
    /\ index' = 0 /\ word' = << >>
    /\ result' = << >> /\ buffer' = << >> /\ seg_pos' = 0
    /\ out' = << >> /\ raised' = ""
    /\ tokenized' = FALSE /\ attempts' = << >> /\ applied' = 0
    /\ UNCHANGED <<table_vars, swap_vars, fn_vars, in_vars, ky_vars, conc_vars>>

Call == CallWith(Texts, Methods)

\* lines 57-58
ConvertMethod ==
    /\ pc = "method"
    /\ IF method.type = "str"
       THEN IF fromString(method.v) = ""
            THEN /\ raised' = UnknownAttack /\ pc' = "raised"
                 /\ UNCHANGED method
            ELSE /\ method' = [type |-> "SimpleAttack", v |-> fromString(method.v)]
                 /\ pc' = "level"
                 /\ UNCHANGED raised
       ELSE /\ pc' = "level"
            /\ UNCHANGED <<method, raised>>
    /\ UNCHANGED <<text, lvl, words, word_indexes, perturbed_words, index, word,
                   result, buffer, seg_pos, out, tokenized, attempts, applied>>
    /\ UNCHANGED <<table_vars, swap_vars, fn_vars, in_vars, ky_vars, conc_vars>>

\* lines 60-61
CheckLevel ==
    /\ pc = "level"
    /\ IF ~LevelInRange(lvl)
       THEN raised' = InvalidLevel /\ pc' = "raised"
       ELSE pc' = "dispatch" /\ UNCHANGED raised
    /\ UNCHANGED <<text, method, lvl, words, word_indexes, perturbed_words, index,
                   word, result, buffer, seg_pos, out, tokenized, attempts, applied>>
    /\ UNCHANGED <<table_vars, swap_vars, fn_vars, in_vars, ky_vars, conc_vars>>

\* lines 64-70, and lines 272-274 of segmentation
Dispatch ==
    /\ pc = "dispatch"
    /\ tokenized' = TRUE
    /\ IF method.v = "SEGMENT"
       THEN /\ words' = word_tokenize(text)
            /\ result' = << >> /\ buffer' = << >> /\ seg_pos' = 1
            /\ pc' = "for"
            /\ UNCHANGED <<word_indexes, perturbed_words>>
       ELSE /\ words' = word_tokenize(text)
            /\ word_indexes' = [i \in 1..Len(word_tokenize(text)) |-> i - 1]
            /\ perturbed_words' = 0
            /\ pc' = "while"
            /\ UNCHANGED <<result, buffer, seg_pos>>
    /\ UNCHANGED <<text, method, lvl, index, word, out, raised, attempts, applied>>
    /\ UNCHANGED <<table_vars, swap_vars, fn_vars, in_vars, ky_vars, conc_vars>>

\* lines 71-78: the loop test passes, an index is drawn and removed
Draw ==
    /\ pc = "while"
    /\ BelowTarget(perturbed_words, Len(words), lvl)
    /\ ~PoolExhausted(word_indexes)
    /\ \E k \in 1..Len(word_indexes) :
          /\ index' = word_indexes[k]
          /\ word_indexes' = ListRemove(word_indexes, word_indexes[k])
          /\ word' = words[word_indexes[k] + 1]
          /\ attempts' = Append(attempts, word_indexes[k])
    /\ pc' = "transform"
    /\ UNCHANGED <<text, method, lvl, words, perturbed_words, result, buffer,
                   seg_pos, out, raised, tokenized, applied>>
    /\ UNCHANGED <<table_vars, swap_vars, fn_vars, in_vars, ky_vars, conc_vars>>

\* lines 80-97: the transform is applied to word and the result stored
Apply ==
    /\ pc = "transform"
    /\ applied' = applied + 1
    /\ \E o \in Transform(method.v, word, lvl, NN, typos) :
          IF o.err # ""
          THEN /\ raised' = o.err /\ pc' = "raised"
               /\ UNCHANGED <<words, perturbed_words>>
          ELSE /\ words' = [words EXCEPT ![index + 1] = o.val]
               /\ perturbed_words' = perturbed_words + Increment(o.val, word)
               /\ pc' = "while"
               /\ UNCHANGED raised
    /\ UNCHANGED <<text, method, lvl, word_indexes, index, word, result, buffer,
                   seg_pos, out, tokenized, attempts>>
    /\ UNCHANGED <<table_vars, swap_vars, fn_vars, in_vars, ky_vars, conc_vars>>

\* lines 71-74 and 98: the loop ends and words goes to the detokenizer
Return ==
    /\ pc = "while"
    /\ ~BelowTarget(perturbed_words, Len(words), lvl) \/ PoolExhausted(word_indexes)
    /\ out' = words
    /\ pc' = "returned"
    /\ UNCHANGED <<text, method, lvl, words, word_indexes, perturbed_words, index,
                   word, result, buffer, seg_pos, raised, tokenized, attempts, applied>>
    /\ UNCHANGED <<table_vars, swap_vars, fn_vars, in_vars, ky_vars, conc_vars>>

\* segmentation, lines 274-279: one pass of the for loop
SegStep ==
    /\ pc = "for"
    /\ seg_pos <= Len(words)
    /\ \/ /\ CanBeBelow(lvl)
          /\ buffer' = buffer \o words[seg_pos]
          /\ UNCHANGED result
       \/ /\ CanBeNotBelow(lvl)
          /\ result' = Append(result, buffer \o words[seg_pos])
          /\ buffer' = << >>
    /\ seg_pos' = seg_pos + 1
    /\ UNCHANGED <<pc, text, method, lvl, words, word_indexes, perturbed_words, index,
                   word, out, raised, tokenized, attempts, applied>>
    /\ UNCHANGED <<table_vars, swap_vars, fn_vars, in_vars, ky_vars, conc_vars>>

\* a faulty SegReturn: the tokens left in the buffer are not emitted
SegReturnDropsBuffer ==
    /\ pc = "for"
    /\ seg_pos > Len(words)
    /\ out' = result
    /\ pc' = "returned"
    /\ UNCHANGED <<text, method, lvl, words, word_indexes, perturbed_words, index,
                   word, result, buffer, seg_pos, raised, tokenized, attempts, applied>>
    /\ UNCHANGED <<table_vars, swap_vars, fn_vars, in_vars, ky_vars, conc_vars>>

\* segmentation, lines 280-282: the loop is over
SegReturn ==
    /\ pc = "for"
    /\ seg_pos > Len(words)
    /\ result' = IF buffer # << >> THEN Append(result, buffer) ELSE result
    /\ out' = IF buffer # << >> THEN Append(result, buffer) ELSE result
    /\ pc' = "returned"
    /\ UNCHANGED <<text, method, lvl, words, word_indexes, perturbed_words, index,
                   word, buffer, seg_pos, raised, tokenized, attempts, applied>>
    /\ UNCHANGED <<table_vars, swap_vars, fn_vars, in_vars, ky_vars, conc_vars>>

\* the call is over (it returned or raised); the caller may call again
Finish ==
    /\ pc \in { "returned", "raised" }
    /\ pc' = "idle"
    /\ text' = << >> /\ method' = [type |-> "str", v |-> ""] /\ lvl' = 0
    /\ words' = << >> /\ word_indexes' = << >> /\ perturbed_words' = 0
    /\ index' = 0 /\ word' = << >>
    /\ result' = << >> /\ buffer' = << >> /\ seg_pos' = 0
    /\ out' = << >> /\ raised' = ""
    /\ tokenized' = FALSE /\ attempts' = << >> /\ applied' = 0
    /\ UNCHANGED <<table_vars, swap_vars, fn_vars, in_vars, ky_vars, conc_vars>>

Next ==
    \/ Call
    \/ ConvertMethod
    \/ CheckLevel
    \/ Dispatch
    \/ Draw
    \/ Apply
    \/ Return
    \/ SegStep
    \/ SegReturn
    \/ Finish

Spec == Init /\ [][Next]_vars

---------------------------------------------------------------------------
(* Direct calls of swap(word, inner), one step per pass of its loop *)

\* the characters of the words handed directly to a transform
Alphabet == { "a", "E", "b", "C", "." }
Words == SeqsUpTo(Alphabet, MaxWordLen)
SwapWords == SeqsUpTo({ "a", "b", "." }, MaxWordLen)

InitSwap == pc = "idle" /\ NoCall /\ NoSwap /\ NoFn /\ NoIntruders /\ NoTypo /\ NoConcurrent /\ TablesLoaded

\* a faulty cap: the loop breaks one try too late
TriesExceededLate(tries) == tries > MaxTries + 1

\* line 139: if tries > 10: break
TriesExceeded(tries) == tries > MaxTries

\* a caller invokes swap(word, inner); lines 133-136
SwapCall ==
    /\ sw_pc = "idle"
    /\ \E w \in SwapWords, inner \in BOOLEAN :
          /\ sw_word' = w /\ sw_inner' = inner
          /\ IF SwapTooShort(w, inner)
             THEN sw_pc' = "returned" /\ sw_ret' = w /\ sw_perturbed' = << >>
             ELSE sw_pc' = "while" /\ sw_ret' = << >> /\ sw_perturbed' = w
    /\ sw_tries' = 0
    /\ UNCHANGED <<main_vars, table_vars, fn_vars, in_vars, ky_vars, conc_vars>>

\* lines 137-145: the loop test passes, tries is within the cap, one shuffle
SwapShuffle ==
    /\ sw_pc = "while"
    /\ sw_perturbed = sw_word
    /\ ~TriesExceeded(sw_tries + 1)
    /\ sw_tries' = sw_tries + 1
    /\ sw_perturbed' \in SwapAttempt(sw_word, sw_inner)
    /\ UNCHANGED <<sw_pc, sw_word, sw_inner, sw_ret>>
    /\ UNCHANGED <<main_vars, table_vars, fn_vars, in_vars, ky_vars, conc_vars>>

\* lines 137-140 and 146: the loop test fails, or tries passes the cap
SwapReturn ==
    /\ sw_pc = "while"
    /\ IF sw_perturbed # sw_word
       THEN UNCHANGED sw_tries
       ELSE TriesExceeded(sw_tries + 1) /\ sw_tries' = sw_tries + 1
    /\ sw_ret' = sw_perturbed
    /\ sw_pc' = "returned"
    /\ UNCHANGED <<sw_word, sw_inner, sw_perturbed>>
    /\ UNCHANGED <<main_vars, table_vars, fn_vars, in_vars, ky_vars, conc_vars>>

\* the call is over; the caller may call again
SwapFinish ==
    /\ sw_pc = "returned"
    /\ sw_pc' = "idle" /\ sw_word' = << >> /\ sw_inner' = FALSE
    /\ sw_perturbed' = << >> /\ sw_tries' = 0 /\ sw_ret' = << >>
    /\ UNCHANGED <<main_vars, table_vars, fn_vars, in_vars, ky_vars, conc_vars>>

NextSwap ==
    \/ SwapCall
    \/ SwapShuffle
    \/ SwapReturn
    \/ SwapFinish

SpecSwap == InitSwap /\ [][NextSwap]_vars

---------------------------------------------------------------------------
(* Direct calls of the deterministic transforms *)

InitFn == pc = "idle" /\ NoCall /\ NoSwap /\ NoFn /\ NoIntruders /\ NoTypo /\ NoConcurrent /\ TablesLoaded

\* a caller invokes disemvoweling(word)
DisemvowelCall ==
    /\ fn_pc = "idle"
    /\ \E w \in Words :
          /\ fn_word' = w
          /\ fn_ret' = disemvoweling(w)
    /\ fn_name' = "disemvoweling"
    /\ fn_pc' = "returned"
    /\ UNCHANGED <<fn_minlen, fn_cutoff>>
    /\ UNCHANGED <<main_vars, table_vars, swap_vars, in_vars, ky_vars, conc_vars>>

\* a caller invokes truncating(word, minlen, cutoff)
TruncateCall ==
    /\ fn_pc = "idle"
    /\ \E w \in Words, minlen \in 0..MaxWordLen, cutoff \in 0..MaxWordLen :
          /\ fn_word' = w /\ fn_minlen' = minlen /\ fn_cutoff' = cutoff
          /\ fn_ret' = truncating(w, minlen, cutoff)
    /\ fn_name' = "truncating"
    /\ fn_pc' = "returned"
    /\ UNCHANGED <<main_vars, table_vars, swap_vars, in_vars, ky_vars, conc_vars>>

\* the call is over; the caller may call again
FnFinish ==
    /\ fn_pc = "returned"
    /\ fn_pc' = "idle" /\ fn_name' = "" /\ fn_word' = << >>
    /\ fn_minlen' = 0 /\ fn_cutoff' = 0 /\ fn_ret' = << >>
    /\ UNCHANGED <<main_vars, table_vars, swap_vars, in_vars, ky_vars, conc_vars>>

NextFn ==
    \/ DisemvowelCall
    \/ TruncateCall
    \/ FnFinish

SpecFn == InitFn /\ [][NextFn]_vars

---------------------------------------------------------------------------
(* Properties of the selection loop of simple_perturb *)

\* the call is in, or has left through line 98, the selection loop
InLoop == pc \in { "while", "transform" }
Selected == InLoop \/ (pc = "returned" /\ method.v # "SEGMENT")

Elems(list) == { list[i] : i \in 1..Len(list) }
NoRepeat(list) == \A i, j \in 1..Len(list) : list[i] = list[j] => i = j
Positions == 0..(Len(text) - 1)

PoolIsUnattempted ==
    Selected =>
        /\ Elems(word_indexes) \cup Elems(attempts) = Positions
        /\ Elems(word_indexes) \cap Elems(attempts) = {}
        /\ NoRepeat(word_indexes)
        /\ NoRepeat(attempts)
        /\ Len(attempts) <= Len(text)
        /\ applied <= Len(attempts)
        /\ (pc = "transform" =>
              /\ index = attempts[Len(attempts)]
              /\ index \notin Elems(word_indexes)
              /\ applied = Len(attempts) - 1)

PoolShrinks ==
    (InLoop /\ pc' \in { "while", "transform", "returned", "raised" }) =>
        /\ Elems(word_indexes') \subseteq Elems(word_indexes)
        /\ Len(word_indexes') <= Len(word_indexes)
        /\ (applied' # applied => word_indexes' = word_indexes)

\* C1: for a non-Segment method the pool starts as all N positions and only
\* shrinks; it always holds exactly the positions not drawn yet; the drawn
\* index has left the pool when its word is transformed; no position is
\* drawn twice, so there are at most N passes of the loop.
C1_PoolOnlyShrinks == [](PoolIsUnattempted) /\ [][PoolShrinks]_vars

\* every position of a full-length text was drawn, the last is being transformed
C1_Witness ==
    /\ pc = "transform" /\ Len(text) = MaxTokens
    /\ Len(attempts) = MaxTokens /\ word_indexes = << >>

\* Python's round(n / d) for n >= 0 and d > 0: half to even
Round(n, d) ==
    LET q == n \div d
        r == n % d
    IN IF 2 * r < d THEN q
       ELSE IF 2 * r > d THEN q + 1
       ELSE IF q % 2 = 0 THEN q ELSE q + 1

\* C2 as stated: a word is attempted only while fewer than
\* round(level * N) tokens have changed, so never more than that many change.
C2_RoundedBudget ==
    Selected =>
        /\ perturbed_words <= Round(Len(text) * lvl, LevelDen)
        /\ (pc = "transform" =>
              perturbed_words < Round(Len(text) * lvl, LevelDen))

\* C2 amended: the budget is level * N, not rounded: a word is attempted only
\* while the number of changed tokens is below level * N, so the number of
\* changed tokens stays below level * N + 1 (it is at most ceil(level * N)).
C2_UnroundedBudget ==
    Selected =>
        /\ perturbed_words * LevelDen < Len(text) * lvl + LevelDen
        /\ perturbed_words >= 0
        /\ (pc = "transform" =>
              perturbed_words * LevelDen < Len(text) * lvl)

\* a token changed although round(level * N) = 0
C2_Witness ==
    /\ pc = "returned" /\ method.v = "TRUNCATE"
    /\ Len(text) = 1 /\ lvl = 1 /\ perturbed_words = 1

Changed == { i \in 1..Len(text) : words[i] # word_tokenize(text)[i] }

CountIsChanged ==
    Selected =>
        /\ Len(words) = Len(text)
        /\ perturbed_words = Cardinality(Changed)
        /\ \A i \in 1..Len(text) :
              (i - 1) \notin Elems(attempts) => words[i] = word_tokenize(text)[i]
        /\ (pc = "transform" => words[index + 1] = word /\ word = text[index + 1])

CountsOnChange ==
    (pc = "transform" /\ pc' = "while") =>
        /\ (words'[index + 1] # word => perturbed_words' = perturbed_words + 1)
        /\ (words'[index + 1] = word => perturbed_words' = perturbed_words)
        /\ \A i \in 1..Len(words) : i # index + 1 => words'[i] = words[i]

\* C3: perturbed_words goes up by one exactly when the transform returned a
\* token other than the one it was given; so perturbed_words is always the
\* number of positions whose token differs from the tokenizer's, and a
\* position never drawn holds the tokenizer's token.
C3_CountEqualsChanged == [](CountIsChanged) /\ [][CountsOnChange]_vars

\* one attempt changed its token and another left its token as it was
C3_Witness ==
    /\ pc = "while" /\ Len(attempts) = 2 /\ applied = 2
    /\ perturbed_words = 1 /\ Cardinality(Changed) = 1

\* the deterministic transform a method names
Deterministic(m, w) ==
    IF m = "DISEMVOWEL" THEN disemvoweling(w)
    ELSE truncating(w, DefaultMinlen, DefaultCutoff)

\* C4: at level 1.0 with Disemvowel or Truncate the detokenizer is handed
\* [T(t) for each input token t]: every token was attempted exactly once,
\* the eligible ones are changed and the others are as they were.
C4_FullLevelMapsTransform ==
    (pc = "returned" /\ lvl = LevelDen /\ method.v \in { "DISEMVOWEL", "TRUNCATE" }) =>
        /\ Len(out) = Len(text)
        /\ \A i \in 1..Len(text) : out[i] = Deterministic(method.v, text[i])
        /\ Elems(attempts) = Positions
        /\ applied = Len(text)

\* "I like" disemvowelled at level 1.0: "I" is kept and "like" becomes "lk"
C4_Witness ==
    /\ pc = "returned" /\ lvl = LevelDen /\ method.v = "DISEMVOWEL"
    /\ text = << <<"I">>, <<"l", "i", "k", "e">> >>
    /\ out = << <<"I">>, <<"l", "k">> >>

IdentifierVariant ==
    { <<"full-swap", "SWAP_FULL">>, <<"inner-swap", "SWAP_INNER">>,
      <<"intrude", "INTRUDE">>, <<"disemvowel", "DISEMVOWEL">>,
      <<"truncate", "TRUNCATE">>, <<"keyboard-typo", "TYPO_KEYBOARD">>,
      <<"natural-typo", "TYPO_NATURAL">>, <<"segment", "SEGMENT">> }

UnknownFails ==
    (method.type = "str" /\ pc \notin { "idle", "method" }) =>
        /\ ~(\E p \in IdentifierVariant : p[1] = method.v)
        /\ pc = "raised" /\ raised = UnknownAttack
        /\ ~tokenized /\ attempts = << >> /\ applied = 0
        /\ words = << >> /\ out = << >>

KnownConverts ==
    (pc = "method" /\ method.type = "str" /\ pc' # "method") =>
        IF \E p \in IdentifierVariant : p[1] = method.v
        THEN /\ method'.type = "SimpleAttack"
             /\ <<method.v, method'.v>> \in IdentifierVariant
             /\ pc' = "level" /\ raised' = ""
             /\ \A p, q \in IdentifierVariant : p[2] = q[2] => p[1] = q[1]
        ELSE pc' = "raised" /\ raised' = UnknownAttack /\ method' = method

\* C6: a call with a string method goes on with the variant of one of the
\* eight canonical identifiers (eight distinct variants) and raises the
\* unknown-attack error for any other string, before any tokenization, draw
\* or transform.
C6_UnknownMethodFails == [](UnknownFails) /\ [][KnownConverts]_vars

\* simple_perturb(text, "reverse", level) has raised
C6_Witness ==
    /\ pc = "raised" /\ raised = UnknownAttack
    /\ method = [type |-> "str", v |-> "reverse"] /\ Len(text) = MaxTokens

\* C7: with a recognised method (Segment too) a level below 0 or above 1
\* raises the invalid-level error before any tokenization, draw or
\* transform; the levels 0 and 1 do not raise it.
C7_InvalidLevelFails ==
    (method.type = "SimpleAttack" /\ pc \notin { "idle", "method", "level" }) =>
        IF lvl < 0 \/ lvl > LevelDen
        THEN /\ pc = "raised" /\ raised = InvalidLevel
             /\ ~tokenized /\ attempts = << >> /\ applied = 0
             /\ words = << >> /\ out = << >> /\ result = << >>
        ELSE raised # InvalidLevel /\ (pc # "dispatch" => tokenized)

\* a Segment call with a level above 1 has raised
C7_Witness ==
    /\ pc = "raised" /\ raised = InvalidLevel
    /\ method.v = "SEGMENT" /\ lvl = LevelDen + 1 /\ Len(text) = MaxTokens

---------------------------------------------------------------------------
(* Properties of segmentation *)

\* the tokens of a sequence concatenated in order
RECURSIVE Flatten(_)
Flatten(toks) == IF toks = << >> THEN << >> ELSE Head(toks) \o Flatten(Tail(toks))

\* each token of merged is the concatenation of a contiguous, non-empty run
\* of toks; the runs are in order and cover toks
RECURSIVE IsGrouping(_, _)
IsGrouping(merged, toks) ==
    IF merged = << >> THEN toks = << >>
    ELSE \E k \in 1..Len(toks) :
            /\ Head(merged) = Flatten(SubSeq(toks, 1, k))
            /\ IsGrouping(Tail(merged), SubSeq(toks, k + 1, Len(toks)))

\* C8: the Segmenter's output tokens concatenated equal the input tokens
\* concatenated; each output token is a contiguous run of input tokens, in
\* order, none dropped or repeated, the tokens left in the buffer included.
C8_SegmenterKeepsContent ==
    /\ (pc = "for" =>
          Flatten(result) \o buffer = Flatten(SubSeq(words, 1, seg_pos - 1)))
    /\ ((pc = "returned" /\ method.v = "SEGMENT") =>
          /\ Flatten(out) = Flatten(word_tokenize(text))
          /\ IsGrouping(out, word_tokenize(text)))

\* the last token was deferred and came out of the buffer after the scan
C8_Witness ==
    /\ pc = "returned" /\ method.v = "SEGMENT"
    /\ Len(text) = MaxTokens /\ buffer # << >> /\ Len(out) < Len(text)

---------------------------------------------------------------------------
(* Properties of swap *)

\* the number of times c occurs in w
Occurrences(w, c) == Cardinality({ i \in 1..Len(w) : w[i] = c })
SameMultiset(v, w) ==
    /\ Len(v) = Len(w)
    /\ \A c \in Elems(v) \cup Elems(w) : Occurrences(v, c) = Occurrences(w, c)

SwapKeepsCharacters(v, w, inner) ==
    /\ SameMultiset(v, w)
    /\ (~inner /\ Len(w) < 3 => v = w)
    /\ (inner /\ Len(w) < 4 => v = w)
    /\ (inner /\ Len(w) >= 4 =>
          /\ v[1] = w[1]
          /\ v[Len(w)] = w[Len(w)]
          /\ SameMultiset(SubSeq(v, 2, Len(w) - 1), SubSeq(w, 2, Len(w) - 1)))

SwapReturnsSwap == sw_pc = "returned" => sw_ret \in swap(sw_word, sw_inner)

---------------------------------------------------------------------------
(* Properties of disemvoweling *)

Vowels == { "a", "e", "i", "o", "u", "A", "E", "I", "O", "U" }

\* v is w without its vowels: the characters that are no vowels, in order
RECURSIVE WithoutVowels(_)
WithoutVowels(w) ==
    IF w = << >> THEN << >>
    ELSE IF Head(w) \in Vowels THEN WithoutVowels(Tail(w))
    ELSE <<Head(w)>> \o WithoutVowels(Tail(w))

\* C10: disemvoweling(w) is w when |w| < 3 or every character of w is a
\* vowel, and else w without its vowels, the other characters in their
\* order; it is never empty for a non-empty w.
C10_DisemvowelRemovesVowels ==
    (fn_pc = "returned" /\ fn_name = "disemvoweling") =>
        /\ IF Len(fn_word) < 3 \/ (\A i \in 1..Len(fn_word) : fn_word[i] \in Vowels)
           THEN fn_ret = fn_word
           ELSE fn_ret = WithoutVowels(fn_word)
        /\ (fn_word # << >> => fn_ret # << >>)

\* a word of mixed-case vowels and other characters lost exactly its vowels
C10_Witness ==
    /\ fn_pc = "returned" /\ fn_name = "disemvoweling"
    /\ fn_word = <<"a", "b", "E", "C">> /\ fn_ret = <<"b", "C">>

---------------------------------------------------------------------------
(* Properties of truncating *)

Min(a, b) == IF a < b THEN a ELSE b

\* C11: truncating(w, minlen, cutoff) is the prefix of w of length
\* len(w) - min(cutoff, len(w) - minlen) when len(w) > minlen and w
\* otherwise; with minlen 3 and cutoff 1 a word of length <= 3 is returned
\* as it is and a longer word loses its last character.
C11_TruncateIsPrefix ==
    (fn_pc = "returned" /\ fn_name = "truncating") =>
        /\ IF Len(fn_word) > fn_minlen
           THEN fn_ret = SubSeq(fn_word, 1,
                           Len(fn_word) - Min(fn_cutoff, Len(fn_word) - fn_minlen))
           ELSE fn_ret = fn_word
        /\ (fn_minlen = 3 /\ fn_cutoff = 1 =>
              IF Len(fn_word) <= 3 THEN fn_ret = fn_word
              ELSE fn_ret = SubSeq(fn_word, 1, Len(fn_word) - 1))

\* a cutoff larger than the room above minlen stopped at minlen
C11_Witness ==
    /\ fn_pc = "returned" /\ fn_name = "truncating"
    /\ Len(fn_word) = 4 /\ fn_minlen = 2 /\ fn_cutoff = 3 /\ Len(fn_ret) = 2

---------------------------------------------------------------------------
(* Calls of intruders(word, perturbation_level), one step per draw, made   *)
(* directly or by simple_perturb with the method Intrude                   *)

IntrudeWords == SeqsUpTo({ "a", "-", "." }, MaxWordLen)
IntrudeTexts == SeqsUpTo({ <<"I">>, <<"c","a","t">>, <<".">> }, MaxTokens)
DirectLevels == 0..LevelDen
IntrudeMethods == { [type |-> "str", v |-> "intrude"],
                    [type |-> "SimpleAttack", v |-> "INTRUDE"] }

InitIntrude == Init

\* lines 157-163: intruders is entered with word w and level l
IntrudersEnter(w, l, caller) ==
    /\ in_pc = "idle"
    /\ in_caller' = caller
    /\ in_word' = w /\ in_lvl' = l
    /\ in_chars' = w
    /\ in_perturbed' = w
    /\ in_i' = 0
    /\ \E k \in 1..Len(punctuation) :
          /\ in_punct' = punctuation[k]
          /\ IF IsSubstring(w, punctuation) \/ Len(w) < 2
             THEN in_ret' = w /\ in_pc' = "returned"
             ELSE IF Len(w) = 2
             THEN in_ret' = <<w[1], punctuation[k], w[Len(w)]>> /\ in_pc' = "returned"
             ELSE in_ret' = << >> /\ in_pc' = "while"

\* a caller invokes intruders(word, perturbation_level)
IntrudersCall ==
    /\ pc = "idle"
    /\ in_pc = "idle"
    /\ \E w \in IntrudeWords, l \in DirectLevels : IntrudersEnter(w, l, "direct")
    /\ UNCHANGED <<main_vars, table_vars, swap_vars, fn_vars, ky_vars, conc_vars>>

\* simple_perturb, lines 84-85: intruders(word, perturbation_level)
IntrudeApplyCall ==
    /\ pc = "transform"
    /\ method.v = "INTRUDE"
    /\ IntrudersEnter(word, lvl, "simple_perturb")
    /\ applied' = applied + 1
    /\ pc' = "intruders"
    /\ UNCHANGED <<text, method, lvl, words, word_indexes, perturbed_words, index,
                   word, result, buffer, seg_pos, out, raised, tokenized, attempts>>
    /\ UNCHANGED <<table_vars, swap_vars, fn_vars, ky_vars, conc_vars>>

\* lines 164-165 and 174: the test of the outer loop
IntrudersWhile ==
    /\ in_pc = "while"
    /\ IF in_perturbed = in_word
       THEN in_i' = 1 /\ in_pc' = "scan" /\ UNCHANGED in_ret
       ELSE in_ret' = in_perturbed /\ in_pc' = "returned" /\ UNCHANGED in_i
    /\ UNCHANGED <<in_caller, in_word, in_lvl, in_chars, in_punct, in_perturbed>>
    /\ UNCHANGED <<main_vars, table_vars, swap_vars, fn_vars, ky_vars, conc_vars>>

\* list.insert(i, x) for 0 <= i <= len(list)
ListInsert(list, i, x) ==
    SubSeq(list, 1, i) \o <<x>> \o SubSeq(list, i + 1, Len(list))

\* lines 166-172: the draw is below the level, punct is inserted at i
IntrudersInsert ==
    /\ in_pc = "scan"
    /\ in_i < Len(in_chars)
    /\ CanBeBelow(in_lvl)
    /\ in_chars' = ListInsert(in_chars, in_i, in_punct)
    /\ in_i' = in_i + 2
    /\ UNCHANGED <<in_pc, in_caller, in_word, in_lvl, in_punct, in_perturbed, in_ret>>
    /\ UNCHANGED <<main_vars, table_vars, swap_vars, fn_vars, ky_vars, conc_vars>>

\* lines 166-172: the draw is not below the level
IntrudersSkip ==
    /\ in_pc = "scan"
    /\ in_i < Len(in_chars)
    /\ CanBeNotBelow(in_lvl)
    /\ in_i' = in_i + 1
    /\ UNCHANGED <<in_pc, in_caller, in_word, in_lvl, in_chars, in_punct,
                   in_perturbed, in_ret>>
    /\ UNCHANGED <<main_vars, table_vars, swap_vars, fn_vars, ky_vars, conc_vars>>

\* lines 166 and 173: the scan is over, perturbed = ''.join(chars)
IntrudersScanEnd ==
    /\ in_pc = "scan"
    /\ ~(in_i < Len(in_chars))
    /\ in_perturbed' = in_chars
    /\ in_pc' = "while"
    /\ UNCHANGED <<in_caller, in_word, in_lvl, in_chars, in_punct, in_i, in_ret>>
    /\ UNCHANGED <<main_vars, table_vars, swap_vars, fn_vars, ky_vars, conc_vars>>

IntrudersReset ==
    /\ in_pc' = "idle" /\ in_caller' = "" /\ in_word' = << >> /\ in_lvl' = 0
    /\ in_chars' = << >> /\ in_punct' = "" /\ in_perturbed' = << >>
    /\ in_i' = 0 /\ in_ret' = << >>

\* the direct call is over; the caller may call again
IntrudersFinish ==
    /\ in_pc = "returned"
    /\ in_caller = "direct"
    /\ IntrudersReset
    /\ UNCHANGED <<main_vars, table_vars, swap_vars, fn_vars, ky_vars, conc_vars>>

\* simple_perturb, lines 85 and 96-97: intruders has returned perturbed_word
IntrudeApplyReturn ==
    /\ pc = "intruders"
    /\ in_pc = "returned"
    /\ in_caller = "simple_perturb"
    /\ words' = [words EXCEPT ![index + 1] = in_ret]
    /\ perturbed_words' = perturbed_words + Increment(in_ret, word)
    /\ pc' = "while"
    /\ IntrudersReset
    /\ UNCHANGED <<text, method, lvl, word_indexes, index, word, result, buffer,
                   seg_pos, out, raised, tokenized, attempts, applied>>
    /\ UNCHANGED <<table_vars, swap_vars, fn_vars, ky_vars, conc_vars>>

\* a caller invokes simple_perturb(text, "intrude" or INTRUDE, level)
IntrudeCall == CallWith(IntrudeTexts, IntrudeMethods)

NextIntrude ==
    \/ IntrudersCall
    \/ IntrudersWhile
    \/ IntrudersInsert
    \/ IntrudersSkip
    \/ IntrudersScanEnd
    \/ IntrudersFinish
    \/ IntrudeCall
    \/ ConvertMethod
    \/ CheckLevel
    \/ Dispatch
    \/ Draw
    \/ IntrudeApplyCall
    \/ IntrudeApplyReturn
    \/ Return
    \/ Finish

SpecIntrude == InitIntrude /\ [][NextIntrude]_vars

\* the program keeps running, and a draw that can fall below the level
\* infinitely often does so at some time
FairSpecIntrude ==
    /\ SpecIntrude
    /\ WF_vars(NextIntrude)
    /\ SF_vars(IntrudersInsert)

---------------------------------------------------------------------------
(* Properties of intruders *)

\* C12: the retry loop of intruders is bounded: for every word and every
\* level in [0,1], level 0 included, a call that has entered the loop
\* returns.
C12_IntrudersTerminates == (in_pc = "while") ~> (in_pc = "returned")

---------------------------------------------------------------------------
(* Direct calls of key(word, probability) and natural(word, precentage)    *)

KeyWords == SeqsUpTo({ "a", "A", "B", "e" }, MaxWordLen)
NaturalWords == Vocab \cup { << >>, <<"A", "b">> }
Probabilities == 0..LevelDen

\* random.random() > probability, random.random() being in [0, 1)
GateCanStop(pr) == pr < LevelDen
GateCanPass(pr) == pr >= 0

\* the tables as loaded at import from some pair of files
InitTypo ==
    /\ pc = "idle" /\ NoCall /\ NoSwap /\ NoFn /\ NoIntruders /\ NoTypo /\ NoConcurrent
    /\ \E kf \in KeyFiles, nf \in NaturalFiles :
          NN = LoadTable(kf) /\ typos = LoadTable(nf)

\* a faulty read: the subscript pops the entries it reads
TableAfterPop(table) == [k \in DOMAIN table |-> << >>]

\* NN[char.lower()] and typos[word] are subscript reads: the table stays as
\* it is (lines 242-246 and 261 assign to no table)
TableAfterRead(table) == table

\* a caller invokes key(word, probability); lines 237-247
KeyCall ==
    /\ ky_pc = "idle" /\ pc = "idle"
    /\ ky_name' = "key"
    /\ ky_pc' = "returned"
    /\ \E w \in KeyWords, pr \in Probabilities :
          /\ ky_word' = w /\ ky_prob' = pr
          /\ \/ /\ GateCanStop(pr)
                /\ ky_gate' = FALSE /\ ky_i' = 0 /\ ky_ret' = w /\ ky_err' = ""
             \/ /\ GateCanPass(pr)
                /\ ky_gate' = TRUE
                /\ IF Len(w) = 0
                   THEN ky_i' = 0 /\ ky_ret' = << >> /\ ky_err' = "ValueError"
                   ELSE \E i \in 1..Len(w) : \E o \in KeyAt(w, NN, i) :
                           ky_i' = i /\ ky_ret' = o.val /\ ky_err' = o.err
    /\ NN' = TableAfterRead(NN) /\ typos' = typos
    /\ UNCHANGED <<main_vars, swap_vars, fn_vars, in_vars, conc_vars>>

\* a caller invokes natural(word, precentage); lines 258-262
NaturalCall ==
    /\ ky_pc = "idle" /\ pc = "idle"
    /\ ky_name' = "natural"
    /\ ky_pc' = "returned"
    /\ ky_i' = 0
    /\ \E w \in NaturalWords, pr \in Probabilities :
          /\ ky_word' = w /\ ky_prob' = pr
          /\ \/ /\ GateCanStop(pr)
                /\ ky_gate' = FALSE /\ ky_ret' = w /\ ky_err' = ""
             \/ /\ GateCanPass(pr)
                /\ ky_gate' = TRUE
                /\ \E o \in natural(w, typos) : ky_ret' = o.val /\ ky_err' = o.err
    /\ typos' = TableAfterRead(typos) /\ NN' = NN
    /\ UNCHANGED <<main_vars, swap_vars, fn_vars, in_vars, conc_vars>>

\* the call is over (it returned or raised); the caller may call again
TypoFinish ==
    /\ ky_pc = "returned"
    /\ ky_pc' = "idle" /\ ky_name' = "" /\ ky_word' = << >> /\ ky_prob' = 0
    /\ ky_gate' = FALSE /\ ky_i' = 0 /\ ky_ret' = << >> /\ ky_err' = ""
    /\ UNCHANGED <<main_vars, table_vars, swap_vars, fn_vars, in_vars, conc_vars>>

NextTypo ==
    \/ KeyCall
    \/ NaturalCall
    \/ TypoFinish

SpecTypo == InitTypo /\ [][NextTypo]_vars

---------------------------------------------------------------------------
(* The lookup tables under calls of simple_perturb, key and natural        *)

\* one caller after another: calls of simple_perturb with any method, text
\* and level, and direct calls of key and natural
NextTables ==
    \/ Next
    \/ NextTypo

SpecTables == Init /\ [][NextTables]_vars

\* C13: after the load, the keyboard-neighbour table and the natural-typo
\* table are never changed: in every state reached by calls of simple_perturb
\* and by direct calls of key and natural, both tables are as loaded.
C13_TablesAsLoaded ==
    /\ NN = LoadTable(en_key)
    /\ typos = LoadTable(en_natural)

\* a direct call of key has replaced a character by a neighbour read from
\* the table
C13_Witness ==
    /\ ky_pc = "returned" /\ ky_name = "key"
    /\ ky_gate /\ ky_err = "" /\ ky_ret # ky_word

---------------------------------------------------------------------------
(* Properties of key and natural *)

\* C15: no transform fails: for every non-empty token and for tables loaded
\* from any file whose lines each have at least one token (a line with a key
\* and no candidates, keys of either case), a call of key or natural returns
\* a word and raises no error.
C15_NoTransformFails ==
    (ky_pc = "returned" /\ Len(ky_word) > 0) => ky_err = ""

\* the neighbour c in the case of the character orig it replaces
InCaseOf(c, orig) == IF IsUpper(orig) THEN Upper(c) ELSE Lower(c)

\* C16: for every non-empty word w, when the probability gate passes and
\* position i is picked, key looks w[i] up case-insensitively: if lower(w[i])
\* is a key of the table, the result differs from w only at i, where it holds
\* an entry of the neighbour list of lower(w[i]), in upper case when w[i] was
\* upper case and in lower case otherwise; if it is no key, or the gate
\* fails, the result is w.
C16_KeyIgnoresCase ==
    (ky_pc = "returned" /\ ky_name = "key" /\ Len(ky_word) > 0) =>
        IF ky_gate /\ Lower(ky_word[ky_i]) \in DOMAIN NN
        THEN LET c == ky_word[ky_i]
                 neighbours == NN[Lower(c)]
             IN  /\ ky_err = ""
                 /\ \E k \in 1..Len(neighbours) :
                       ky_ret = [ky_word EXCEPT ![ky_i] = InCaseOf(neighbours[k], c)]
        ELSE ky_err = "" /\ ky_ret = ky_word

---------------------------------------------------------------------------
(* Properties of the retry loop of swap *)

\* tries counts the passes of the loop test; the pass that exceeds the cap
\* breaks before it shuffles
Shuffles == IF sw_tries > MaxTries THEN sw_tries - 1 ELSE sw_tries

SwapBounded ==
    /\ sw_pc = "while" =>
          /\ sw_tries <= MaxTries
          /\ sw_tries = 0 => sw_perturbed = sw_word
    /\ sw_pc \in { "while", "returned" } => Shuffles <= MaxTries
    /\ (sw_pc = "returned" /\ ~SwapTooShort(sw_word, sw_inner)) =>
          /\ sw_ret = sw_perturbed
          /\ sw_ret # sw_word => sw_tries \in 1..MaxTries
          /\ sw_ret = sw_word => sw_tries = MaxTries + 1

SwapStopsAtFirstChange ==
    sw_pc = "while" =>
        IF sw_perturbed # sw_word
        THEN sw_pc' = "returned" /\ sw_ret' = sw_perturbed /\ sw_tries' = sw_tries
        ELSE \/ sw_pc' = "while" /\ sw_tries' = sw_tries + 1
             \/ sw_pc' = "returned" /\ sw_ret' = sw_word /\ sw_tries = MaxTries

\* C17: for a word long enough to be shuffled, swap performs at most 10
\* shuffles, stops at the first shuffle whose result differs from the input,
\* and when all 10 results equal the input it returns the input unchanged;
\* every step of the loop returns or uses up one of the 10 tries, so the call
\* terminates for every word.
C17_SwapRetriesBounded == [](SwapBounded) /\ [][SwapStopsAtFirstChange]_vars

\* ten shuffles of a word of one repeated character all gave the input, which
\* is returned
C17_Witness ==
    /\ sw_pc = "returned" /\ ~SwapTooShort(sw_word, sw_inner)
    /\ Shuffles = MaxTries /\ sw_ret = sw_word

\* a word made of punctuation characters only
IsPunctuation(w) == \A i \in 1..Len(w) : \E k \in 1..Len(punctuation) : w[i] = punctuation[k]

\* w with one p after each of its characters whose position is in gaps
RECURSIVE WithIntruders(_, _, _)
WithIntruders(w, gaps, p) ==
    IF Len(w) = 0 THEN << >>
    ELSE LET init == SubSeq(w, 1, Len(w) - 1)
             last == w[Len(w)]
         IN  IF (Len(w) - 1) \in gaps
             THEN WithIntruders(init, gaps, p) \o << p, last >>
             ELSE WithIntruders(init, gaps, p) \o << last >>

IntrudersShape(w, r) ==
    IF IsPunctuation(w) \/ Len(w) < 2
    THEN r = w
    ELSE IF Len(w) = 2
    THEN \E k \in 1..Len(punctuation) : r = << w[1], punctuation[k], w[2] >>
    ELSE \E k \in 1..Len(punctuation) :
            \E gaps \in (SUBSET (1..(Len(w) - 1))) \ { {} } :
               r = WithIntruders(w, gaps, punctuation[k])

\* C18: intruders returns word unchanged when word is itself punctuation or
\* shorter than 2; for a word of length 2 it returns the two characters with
\* one punctuation character between them; for a longer word, whenever it
\* returns, the result is word with k copies of one punctuation character
\* inserted, 1 <= k <= |word| - 1, at most one per internal gap, none before
\* the first or after the last character, the original characters in order.
C18_IntrudersShape ==
    in_pc = "returned" => IntrudersShape(in_word, in_ret)

---------------------------------------------------------------------------
(* intruders under simple_perturb *)

\* intruders is running (or has returned) on behalf of simple_perturb
IntrudeFromPerturb == in_pc # "idle" /\ in_caller = "simple_perturb"

InsertionPossible == IntrudeFromPerturb => (in_lvl > 0 /\ in_lvl = lvl)

\* C19: inside simple_perturb a transform is invoked only when level > 0, so
\* intruders is never called from simple_perturb with insertion probability
\* 0; every scan of its retry loop can then insert, and under fair random
\* draws every simple_perturb call with method Intrude eventually returns
\* (or raises on its arguments).
C19_IntrudeCallReturns ==
    /\ [](InsertionPossible)
    /\ (pc = "method") ~> (pc \in { "returned", "raised" })

\* a simple_perturb call with method Intrude has returned a text in which
\* the retry loop of intruders has inserted into a word of three characters
\* or more
C19_Witness ==
    /\ pc = "returned" /\ method.v = "INTRUDE"
    /\ \E i \in 1..Len(text) : Len(text[i]) >= 3 /\ out[i] # text[i]

---------------------------------------------------------------------------
(* The selection loop of simple_perturb at its exit *)

\* the loop of lines 71-97 has ended without an error and words has gone to
\* the detokenizer
LoopExited == pc = "returned" /\ method.v # "SEGMENT"

AllAttempted == word_indexes = << >> /\ Elems(attempts) = 0..(Len(text) - 1)

\* the words a transform can make of token w
Perturbations(w) == { o.val : o \in Transform(method.v, w, lvl, NN, typos) }

\* token i is where the tokenizer put it, as it was or perturbed
InTokenizerOrder ==
    /\ Len(out) = Len(word_tokenize(text))
    /\ \A i \in 1..Len(out) :
          IF (i - 1) \in Elems(attempts)
          THEN out[i] \in Perturbations(word_tokenize(text)[i])
          ELSE out[i] = word_tokenize(text)[i]

\* C20: when the selection loop exits over N tokens at level L, the number c
\* of changed tokens is at most ceil(L * N), and either c >= L * N or all N
\* positions have been attempted; the loop never exits with the budget unmet
\* while an unattempted position remains; the number and order of the tokens
\* are the tokenizer's.
C20_ExitBudgetOrExhausted ==
    LoopExited =>
        LET c == Cardinality(Changed)
            N == Len(word_tokenize(text))
        IN  /\ c = perturbed_words
            /\ c * LevelDen < lvl * N + LevelDen
            /\ c * LevelDen >= lvl * N \/ AllAttempted
            /\ InTokenizerOrder

\* the loop has exited on the exhausted pool: one token changed, the budget
\* of two is unmet and both positions were attempted
C20_Witness ==
    /\ LoopExited /\ Len(text) = 2
    /\ Cardinality(Changed) = 1
    /\ Cardinality(Changed) * LevelDen < lvl * Len(text)
    /\ AllAttempted

---------------------------------------------------------------------------
(* Two callers running simple_perturb concurrently                         *)

ConcTexts == { << <<"c", "a", "t">> >>, << <<"I">>, <<"c", "a", "t">> >> }
ConcMethods == { "SWAP_FULL", "TYPO_KEYBOARD" }
ConcLevels == { 1, LevelDen }

\* number of generator states told apart: a draw moves to the next one
RngStates == 2

\* the generators a transform draws from
DrawsFrom(m) ==
    IF m \in { "SWAP_FULL", "SWAP_INNER" } THEN { "np.random" }
    ELSE IF m = "INTRUDE" THEN { "random", "np.random" }
    ELSE IF m \in { "TYPO_KEYBOARD", "TYPO_NATURAL" } THEN { "random" }
    ELSE { }

\* a draw reads the state of its generator and leaves it advanced
Advance(gens, r) == [g \in Generators |-> IF g \in gens THEN (r[g] + 1) % RngStates ELSE r[g]]

\* a faulty Frame: every call works on the locals of caller 1
FrameOfFirst(p) == 1

\* the locals of simple_perturb belong to the call: caller p works on its own
Frame(p) == p

\* lines 57-70 with a valid method and level: tokenize, fill the pool
ConcBegin(p) ==
    /\ calls[Frame(p)].pc = "idle"
    /\ \E t \in ConcTexts, m \in ConcMethods, l \in ConcLevels :
          calls' = [calls EXCEPT ![Frame(p)] =
                      [pc |-> "while", text |-> t, method |-> m, lvl |-> l,
                       words |-> word_tokenize(t),
                       word_indexes |-> [i \in 1..Len(word_tokenize(t)) |-> i - 1],
                       perturbed_words |-> 0, index |-> 0, word |-> << >>,
                       out |-> << >>]]
    /\ UNCHANGED rng
    /\ UNCHANGED <<main_vars, table_vars, swap_vars, fn_vars, in_vars, ky_vars>>

\* lines 71-78: random.choice draws an index, which leaves the pool
ConcDraw(p) ==
    LET f == calls[Frame(p)] IN
    /\ f.pc = "while"
    /\ BelowTarget(f.perturbed_words, Len(f.words), f.lvl)
    /\ ~PoolExhausted(f.word_indexes)
    /\ \E k \in 1..Len(f.word_indexes) :
          calls' = [calls EXCEPT ![Frame(p)] =
                      [f EXCEPT !.pc = "transform",
                                !.index = f.word_indexes[k],
                                !.word_indexes = ListRemove(f.word_indexes, f.word_indexes[k]),
                                !.word = f.words[f.word_indexes[k] + 1]]]
    /\ rng' = Advance({ "random" }, rng)
    /\ UNCHANGED <<main_vars, table_vars, swap_vars, fn_vars, in_vars, ky_vars>>

\* lines 80-97: the transform, which reads the tables and draws
ConcApply(p) ==
    LET f == calls[Frame(p)] IN
    /\ f.pc = "transform"
    /\ \E o \in Transform(f.method, f.word, f.lvl, NN, typos) :
          calls' = [calls EXCEPT ![Frame(p)] =
                      IF o.err # ""
                      THEN [f EXCEPT !.pc = "raised"]
                      ELSE [f EXCEPT !.pc = "while",
                                     !.words = [f.words EXCEPT ![f.index + 1] = o.val],
                                     !.perturbed_words = f.perturbed_words + Increment(o.val, f.word)]]
    /\ rng' = Advance(DrawsFrom(f.method), rng)
    /\ UNCHANGED <<main_vars, table_vars, swap_vars, fn_vars, in_vars, ky_vars>>

\* lines 71-74 and 98: the loop ends
ConcReturn(p) ==
    LET f == calls[Frame(p)] IN
    /\ f.pc = "while"
    /\ ~BelowTarget(f.perturbed_words, Len(f.words), f.lvl) \/ PoolExhausted(f.word_indexes)
    /\ calls' = [calls EXCEPT ![Frame(p)] = [f EXCEPT !.pc = "returned", !.out = f.words]]
    /\ UNCHANGED rng
    /\ UNCHANGED <<main_vars, table_vars, swap_vars, fn_vars, in_vars, ky_vars>>

\* the steps of caller p
ConcStep(p) ==
    \/ ConcBegin(p)
    \/ ConcDraw(p)
    \/ ConcApply(p)
    \/ ConcReturn(p)

NextConcurrent == \E p \in Callers : ConcStep(p)

SpecConcurrent == Init /\ [][NextConcurrent]_vars

---------------------------------------------------------------------------
(* Properties of concurrent calls *)

\* the token sequences a call running alone can hand to the detokenizer,
\* from the loop state (ws, pool, count)
RECURSIVE SoloRun(_, _, _, _, _)
SoloRun(m, l, ws, pool, count) ==
    IF ~BelowTarget(count, Len(ws), l) \/ PoolExhausted(pool)
    THEN { ws }
    ELSE UNION { UNION { SoloRun(m, l, [ws EXCEPT ![pool[k] + 1] = o.val],
                                 ListRemove(pool, pool[k]),
                                 count + Increment(o.val, ws[pool[k] + 1]))
                         : o \in { x \in Transform(m, ws[pool[k] + 1], l, NN, typos) : x.err = "" } }
                 : k \in 1..Len(pool) }

SoloResults(t, m, l) ==
    SoloRun(m, l, word_tokenize(t), [i \in 1..Len(word_tokenize(t)) |-> i - 1], 0)

\* each returned call has a result it could have produced running alone
ResultIsSolo ==
    \A p \in Callers :
        calls[p].pc = "returned" =>
            calls[p].out \in SoloResults(calls[p].text, calls[p].method, calls[p].lvl)

\* a step of caller p leaves the locals of the other callers and the two
\* tables as they are
LocalsAndTablesKept(p) ==
    /\ \A q \in Callers \ { p } : calls'[q] = calls[q]
    /\ NN' = NN /\ typos' = typos

\* a step of caller p writes no state that another call reads
NoSharedWrite(p) == LocalsAndTablesKept(p) /\ rng' = rng

---------------------------------------------------------------------------
(* The Segmenter at the ends of the level range *)

Segmenting == method.v = "SEGMENT" /\ pc \in { "for", "returned" }

\* C21: the Segmenter never produces more output tokens than input tokens;
\* at level 0 no token is ever deferred and the output token sequence equals
\* the input token sequence; at level 1 every token is deferred and a
\* non-empty input is emitted as exactly one token, the concatenation of all
\* input tokens; an empty input gives an empty output.
C21_SegmenterAtExtremes ==
    Segmenting =>
        LET toks == word_tokenize(text) IN
        /\ Len(result) <= Len(toks)
        /\ pc = "for" =>
              /\ lvl = 0 => (buffer = << >> /\ result = SubSeq(toks, 1, seg_pos - 1))
              /\ lvl = LevelDen =>
                    (result = << >> /\ buffer = Flatten(SubSeq(toks, 1, seg_pos - 1)))
        /\ pc = "returned" =>
              /\ Len(out) <= Len(toks)
              /\ lvl = 0 => out = toks
              /\ (lvl = LevelDen /\ toks # << >>) => out = << Flatten(toks) >>
              /\ toks = << >> => out = << >>

\* at level 1 a text of two tokens or more has come out as one token
C21_Witness ==
    /\ pc = "returned" /\ method.v = "SEGMENT"
    /\ lvl = LevelDen /\ Len(text) >= 2
    /\ out = << Flatten(word_tokenize(text)) >>

====
